---- MODULE Spec2Model ----
(***************************************************************************)
(* Model of the megabump integration bot (scripts/bot.py and               *)
(* scripts/integerate.py).                                                 *)
(*                                                                         *)
(* The bot is a single asyncio event loop: a handler runs without          *)
(* interruption from one `await` to the next, and at every `await` any     *)
(* other handler that has been dispatched may run.  Each action below is   *)
(* one such uninterrupted segment of a handler.                            *)
(*                                                                         *)
(* Upstream commits are numbered 1, 2, ... in upstream order; the revision *)
(* pointer is the number of the last merged commit.  Branch names are      *)
(* pairs <<base, k>>: k = 0 is the bare name, k >= 1 the name with the     *)
(* suffix _k.                                                              *)
(***************************************************************************)
EXTENDS Integers, Sequences, FiniteSets

\* Bounds of the model.
MaxCommits == 2     \* upstream commits that may appear
MaxCommands == 3    \* commands and button presses the operators issue

VARIABLES
    pointer,        \* revision pointer (llvm_revision state)
    upstream,       \* newest commit that exists upstream
    fetched,        \* newest commit the revision tool has fetched
    currentBranch,  \* branch checked out in the iree working copy
    branches,       \* local branches of the iree working copy
    pushed,         \* branches pushed to origin
    threads,        \* Discord threads: thread id -> thread name
    pagers,         \* review pagers opened by `status`
    tasks,          \* handlers suspended at an await
    issued,         \* commands and button presses dispatched so far
    clock,          \* wall-clock time, in ticks of five seconds
    process,        \* the build process started by BuildButton.callback
    build,          \* BuildButton.callback: its position and local variables
    desc,           \* a raw commit description handed to get_commit_embed
    embed           \* the embed get_commit_embed made of it

botVars == <<pointer, upstream, fetched, currentBranch, branches, pushed,
             threads, pagers, tasks, issued>>

buildVars == <<clock, process, build>>

parseVars == <<desc, embed>>

vars == <<botVars, buildVars, parseVars>>

----------------------------------------------------------------------------
\* Names

Main == <<"main", 0>>
None == <<"None", 0>>
BaseName == "integrate-llvm-D"

RemoveAt(s, i) == [j \in 1..(Len(s) - 1) |-> IF j < i THEN s[j] ELSE s[j + 1]]

\* Channels a command can be typed in: 0 is a channel that is no thread.
Channels == 0..Len(threads)

----------------------------------------------------------------------------
\* Revision tool

\* state.new_commits: the commits after the pointer that the tool has
\* fetched, oldest first.
new_commits(ptr, head) == [i \in 1..(IF head > ptr THEN head - ptr ELSE 0) |-> ptr + i]

\* `llvm_revision fetch`: a zero exit refreshes the fetched head; the exit
\* code is not looked at by get_status.
get_status_fetched(exit) == IF exit = 0 THEN upstream ELSE fetched

get_status(exit) == new_commits(pointer, get_status_fetched(exit))

\* A mutant of the revision tool that moves the pointer to any target.
llvm_revision_next_any(target, toolOk) ==
    IF toolOk THEN [pointer |-> target, returncode |-> 0]
    ELSE [pointer |-> pointer, returncode |-> 1]

\* `llvm_revision next --advance-to=<target>`: moves the pointer when the
\* target is a commit of the backlog, and exits non-zero otherwise.
llvm_revision_next(target, toolOk) ==
    IF toolOk /\ target > pointer /\ target <= fetched
    THEN [pointer |-> target, returncode |-> 0]
    ELSE [pointer |-> pointer, returncode |-> 1]

\* A mutant of advance_to that reports success whatever the exit code.
advance_to_ignoring_exit(returncode) == TRUE

advance_to(returncode) == IF returncode # 0 THEN FALSE ELSE TRUE

----------------------------------------------------------------------------
\* Session binding

get_branch_name(thread_id) ==
    IF thread_id \in 1..Len(threads) THEN threads[thread_id] ELSE None

\* A mutant of check_channel without the comparison against the checkout.
check_channel_unchecked(branch_name, current_branch) ==
    IF branch_name = None THEN "NotFound" ELSE "ok"

check_channel(branch_name, current_branch) ==
    IF branch_name = None THEN "NotFound"
    ELSE IF current_branch # branch_name THEN "StaleSession"
    ELSE "ok"

----------------------------------------------------------------------------
\* Review pager

\* A mutant of the pager's navigation that wraps around (loop_pages=True).
navigate_looping(page, count, dir) ==
    CASE dir = "first" -> 0
      [] dir = "last" -> count - 1
      [] dir = "prev" -> IF page = 0 THEN count - 1 ELSE page - 1
      [] dir = "next" -> IF page = count - 1 THEN 0 ELSE page + 1

\* The Paginator's own buttons with loop_pages left at its default: the
\* previous button is disabled on the first page and the next button on the
\* last one.
navigate(page, count, dir) ==
    CASE dir = "first" -> 0
      [] dir = "last" -> count - 1
      [] dir = "prev" -> IF page = 0 THEN page ELSE page - 1
      [] dir = "next" -> IF page = count - 1 THEN page ELSE page + 1

Directions == {"first", "prev", "next", "last"}

\* A mutant of the callback's read that looks one page ahead.
current_page_read_next(paginator) == paginator.current_page + 1

\* self.paginator.pages[self.paginator.current_page]: the index read.
current_page_read(paginator) == paginator.current_page

Kinds == {"advance_to", "build", "push"}

----------------------------------------------------------------------------
\* start_integerate

MaxSuffix == 2      \* largest suffix _k among the branches found at start

\* A branch of another day.
OtherName == "integrate-llvm-E"

\* Branches the working copy may hold when the bot starts.
Names == {<<BaseName, k>> : k \in 0..MaxSuffix} \cup {<<OtherName, 0>>}

\* A mutant of the name loop that counts the branches instead of probing.
free_branch_name_counting(k, existing) == <<BaseName, Cardinality(existing)>>

\* The loop of start_integerate: k = 0 is base_branch_name, k >= 1 is
\* f"{base_branch_name}_{counter}" with counter = k.
RECURSIVE free_branch_name(_, _)
free_branch_name(k, existing) ==
    IF <<BaseName, k>> \in existing THEN free_branch_name(k + 1, existing)
    ELSE <<BaseName, k>>

\* The git calls of start_integerate and of the push that follows, in order.
\* failAt names the first call that raises ("none": all succeed).
GitCalls == <<"switch", "fetch", "pull", "submodule", "create_branch",
              "checkout", "commit", "push">>

\* A mutant of the call order in which no failure stops the calls after it.
Reaches_regardless(failAt, c) == TRUE

CallIndex(c) == CHOOSE i \in 1..Len(GitCalls) : GitCalls[i] = c

Reaches(failAt, c) == failAt = "none" \/ CallIndex(failAt) > CallIndex(c)

start_integerate(failAt) ==
    LET name == free_branch_name(0, branches)
    IN  [ok |-> Reaches(failAt, "commit"),
         branch_name |-> name,
         currentBranch |->
             IF ~Reaches(failAt, "switch") THEN currentBranch
             ELSE IF ~Reaches(failAt, "checkout") THEN Main
             ELSE name,
         branches |->
             IF Reaches(failAt, "create_branch") THEN branches \cup {name}
             ELSE branches]

----------------------------------------------------------------------------
\* Build output
\*
\* A line of output is a sequence of words; `logs` is a sequence of lines.
\* The clock counts ticks of five seconds.

MaxClock == 6       \* ticks of wall-clock time a build is followed for
MaxLines == 2       \* lines a build process writes

\* The lines a build process may write.
Lines == { <<"FAILED:", "target">>,
           <<"note:", "something">>,
           <<"error:", "bad", "type">>,
           <<"subcommand", "FAILED:">>,
           <<"a.cc:", "Assertion", "failed">> }

\* logs = "Building and testing...\n"
Heading == <<"Building", "and", "testing...">>

Seconds(ticks) == 5 * ticks

\* A mutant of the cadence test that lets every line through.
should_push_always(now, curr_time) == TRUE

\* time.time() - curr_time > 10
should_push(now, curr_time) == Seconds(now - curr_time) > 10

\* A mutant of the except clause that lets the exception out of the loop.
message_edit_raising(ok) == IF ok THEN "readline" ELSE "raised"

\* try: await message.edit(...) except Exception as e: print(e)
\* Where the callback is once the await is over, delivered (ok) or raised.
message_edit(ok) == "readline"

\* A mutant of the exit-code test that calls every build a success.
build_result_always_ok(return_code) == "Build and Test Successful"

\* if return_code != 0: ... "Build and Test Failed" else "... Successful"
build_result(return_code) ==
    IF return_code # 0 THEN "Build and Test Failed"
    ELSE "Build and Test Successful"

startswith(line, word) == Len(line) >= 1 /\ line[1] = word

contains(line, word) == \E k \in 1..Len(line) : line[k] = word

\* A mutant of the filter that looks for FAILED: anywhere in the line.
is_error_line_anywhere(line) ==
    contains(line, "FAILED:") \/ contains(line, "error:")
        \/ contains(line, "Assertion")

\* line.startswith("FAILED:") or "error:" in line or "Assertion" in line
is_error_line(line) ==
    startswith(line, "FAILED:") \/ contains(line, "error:")
        \/ contains(line, "Assertion")

\* logs.split("\n"): every line of logs ends with a newline, so the split
\* ends with an empty string.
split(logs) == Append(logs, <<>>)

\* The loop over logs.split("\n") that fills error_lines.
RECURSIVE error_lines(_)
error_lines(lines) ==
    IF lines = <<>> THEN <<>>
    ELSE IF is_error_line(Head(lines))
         THEN <<Head(lines)>> \o error_lines(Tail(lines))
         ELSE error_lines(Tail(lines))

\* No build process, and no Build callback.
NoProcess == [state |-> "none", emitted |-> <<>>, return_code |-> 0]

NoBuild == [pc |-> "idle", logs |-> <<>>, curr_time |-> 0, started |-> 0,
            return_code |-> 0, pushes |-> <<>>, shown |-> <<>>]

----------------------------------------------------------------------------
\* Commit descriptions

\* A description is a sequence of tokens: " " is white space, "(", ")" and
\* "#" are themselves, a token of Digits is a run of digits, "on" is the
\* word on, and any other token is a word without white space or brackets.

NoEmbed == [made |-> FALSE]

MaxWords == 3       \* words in the text of a description

Digits == {"123"}

\* The words a description text is made of: a plain word and a bracketed
\* note.
Words == { <<"Fix">>, <<"(", "NFC", ")">> }

RECURSIVE Join(_)
Join(words) ==
    IF Len(words) = 1 THEN words[1]
    ELSE words[1] \o <<" ">> \o Join(Tail(words))

\* Description texts: one to MaxWords words with a space between them.
Texts == UNION {{Join(w) : w \in [1..n -> Words]} : n \in 1..MaxWords}

Authors == { <<"Jane">>, <<"Jane", " ", "Doe">> }

Dates == { <<"2024-01-02">> }

PrNum == <<"#", "123">>

\* "<text> (#<number>) (<author> on <date>)", with or without the
\* pull-request marker.
Described(text, hasPr, author, date) ==
    text \o (IF hasPr THEN <<" ", "(">> \o PrNum \o <<")">> ELSE <<>>)
         \o <<" ", "(">> \o author \o <<" ", "on", " ">> \o date \o <<")">>

\* The least element of a non-empty set of numbers.
Least(S) == CHOOSE x \in S : \A y \in S : x <= y

\* \s* from position p: the position after the white space.
skip_spaces(s, p) ==
    Least({q \in p..(Len(s) + 1) : q > Len(s) \/ s[q] # " "})

\* " on " at position j.
on_at(s, j) ==
    j + 2 <= Len(s) /\ s[j] = " " /\ s[j + 1] = "on" /\ s[j + 2] = " "

\* \((?P<author>.*?) on (?P<date>.*?)\)  at position r: the author runs to
\* the first " on " that a ")" follows, the date from there to the first ")".
match_attribution(s, r) ==
    LET ons == {j \in (r + 1)..Len(s) :
                   on_at(s, j) /\ \E k \in (j + 3)..Len(s) : s[k] = ")"}
    IN  IF r <= Len(s) /\ s[r] = "(" /\ ons # {}
        THEN LET j == Least(ons)
                 k == Least({x \in (j + 3)..Len(s) : s[x] = ")"})
             IN  [match |-> TRUE,
                  author |-> SubSeq(s, r + 1, j - 1),
                  date |-> SubSeq(s, j + 3, k - 1)]
        ELSE [match |-> FALSE]

\* \((?P<pr_num>#\d+)\)  at position q: where it ends, or 0.
match_pr(s, q) ==
    IF q + 1 <= Len(s) /\ s[q] = "(" /\ s[q + 1] = "#"
    THEN LET e == Least({x \in (q + 2)..(Len(s) + 1) :
                            x > Len(s) \/ s[x] \notin Digits})
         IN  IF e > q + 2 /\ e <= Len(s) /\ s[e] = ")" THEN e ELSE 0
    ELSE 0

\* The rest of the pattern after a commit_desc of a tokens: white space,
\* the pull-request marker if the rest matches with it, white space, the
\* attribution.
match_rest(s, a) ==
    LET q == skip_spaces(s, a + 1)
        e == match_pr(s, q)
        withPr == IF e = 0 THEN [match |-> FALSE]
                  ELSE match_attribution(s, skip_spaces(s, e + 1))
        without == match_attribution(s, q)
    IN  IF withPr.match
        THEN [match |-> TRUE, commit_desc |-> SubSeq(s, 1, a),
              pr_num |-> SubSeq(s, q + 1, e - 1),
              author |-> withPr.author, date |-> withPr.date]
        ELSE IF without.match
        THEN [match |-> TRUE, commit_desc |-> SubSeq(s, 1, a),
              pr_num |-> <<>>,
              author |-> without.author, date |-> without.date]
        ELSE [match |-> FALSE]

\* regex.match(desc): (?P<commit_desc>.*?) takes the fewest tokens for
\* which the rest of the pattern matches.  pr_num = <<>> stands for None.
parse_desc(s) ==
    LET starts == {a \in 0..Len(s) : match_rest(s, a).match}
    IN  IF starts = {} THEN [match |-> FALSE]
        ELSE match_rest(s, Least(starts))

\* The embed of a commit: its description, and the author, Date and Github
\* PR it carries when the description parsed.
get_commit_embed(s) ==
    LET parsed == parse_desc(s)
    IN  IF ~parsed.match
        THEN [made |-> TRUE, description |-> s, structured |-> FALSE,
              author |-> <<>>, date |-> <<>>, github_pr |-> <<>>]
        ELSE [made |-> TRUE, description |-> parsed.commit_desc,
              structured |-> TRUE,
              author |-> parsed.author, date |-> parsed.date,
              github_pr |-> IF parsed.pr_num = <<>> THEN <<"No PR">>
                            ELSE Tail(parsed.pr_num)]

----------------------------------------------------------------------------
\* The bot starts.  The working copy, the remote and the Discord threads
\* outlive the bot process: it starts either before any integrate, or with
\* the session of an earlier integrate still checked out.
Init ==
    /\ pointer = 0
    /\ upstream = 0
    /\ fetched = 0
    /\ \E session \in BOOLEAN :
          IF session
          THEN /\ currentBranch = <<BaseName, 0>>
               /\ branches = {<<BaseName, 0>>}
               /\ pushed = {<<BaseName, 0>>}
               /\ threads = << <<BaseName, 0>> >>
          ELSE /\ currentBranch = Main
               /\ branches = {}
               /\ pushed = {}
               /\ threads = <<>>
    /\ pagers = <<>>
    /\ tasks = <<>>
    /\ issued = 0
    /\ clock = 0
    /\ process = NoProcess
    /\ build = NoBuild
    /\ desc = <<>>
    /\ embed = NoEmbed

\* A commit lands upstream.
UpstreamCommit ==
    /\ upstream < MaxCommits
    /\ upstream' = upstream + 1
    /\ UNCHANGED <<buildVars, parseVars>>
    /\ UNCHANGED <<pointer, fetched, currentBranch, branches, pushed, threads,
                   pagers, tasks, issued>>

\* A handler that has just been dispatched.  pc is the await it is suspended
\* at; the other fields are its local variables and, once it reports, what
\* it tells the operator.
\*   name             : the name of the thread the handler was invoked in
\*   checkedOut       : the branch checked out when a status or a button
\*                      callback was invoked
\*   trig             : the page in view when the button was pressed
\*   commit           : commit_id
\*   before, head     : the pointer and the fetched head when advance_to ran
\*   after            : the pointer when advance_to returned
\*   returncode       : exit code of the external tool
\*   result           : what the handler's helper returned
\*   report           : the message sent to the operator
NewTask(kind, pc, channel, pager) ==
    [kind |-> kind, pc |-> pc, channel |-> channel, pager |-> pager,
     name |-> get_branch_name(channel),
     checkedOut |-> IF kind = "integerate" THEN None ELSE currentBranch,
     trig |-> 0,
     commit |-> 0, before |-> 0, head |-> 0, after |-> 0, returncode |-> 0,
     result |-> "none", report |-> "none"]

\* The last await of a handler returns and the handler ends, or the
\* exception it let out (pc = "raised") has reached the dispatcher.
TaskDone(i) ==
    /\ i \in 1..Len(tasks)
    /\ tasks[i].pc \in {"respond", "report", "raised"}
    /\ tasks' = RemoveAt(tasks, i)
    /\ UNCHANGED <<buildVars, parseVars>>
    /\ UNCHANGED <<pointer, upstream, fetched, currentBranch, branches, pushed,
                   threads, pagers, issued>>

----------------------------------------------------------------------------
\* status

\* status up to its first await: the role check and check_channel, then
\* `await ctx.respond` (refused) or `await ctx.defer()`.
StatusCheck(ch, hasRole) ==
    /\ issued < MaxCommands
    /\ LET name == get_branch_name(ch)
           result == IF hasRole THEN check_channel(name, currentBranch)
                     ELSE "NoRole"
       IN  tasks' = Append(tasks,
                 [NewTask("status", IF result = "ok" THEN "defer" ELSE "respond",
                          ch, 0)
                    EXCEPT !.result = result,
                           !.report = IF result = "ok" THEN "none" ELSE result])
    /\ issued' = issued + 1
    /\ UNCHANGED <<buildVars, parseVars>>
    /\ UNCHANGED <<pointer, upstream, fetched, currentBranch, branches, pushed,
                   threads, pagers>>

\* status after the defer: get_status, one page per commit, and the pager
\* sent by `await paginator.respond`, after which the handler ends.  The
\* Paginator shows pages[current_page] when it responds, so an empty page
\* list raises out of the handler and no pager is opened.  fetchExit keeps,
\* with the pager, the exit code of the fetch it was built after.
StatusOpen(i, exit) ==
    /\ i \in 1..Len(tasks)
    /\ tasks[i].kind = "status" /\ tasks[i].pc = "defer"
    /\ LET commits == get_status(exit)
       IN  /\ fetched' = get_status_fetched(exit)
           /\ IF commits = <<>>
              THEN /\ pagers' = pagers
                   /\ tasks' = RemoveAt(tasks, i)
              ELSE /\ pagers' = Append(pagers,
                                       [channel |-> tasks[i].channel,
                                        pages |-> commits,
                                        current_page |-> 0,
                                        cancelled |-> FALSE,
                                        effects |-> 0,
                                        fetchExit |-> exit])
                   /\ tasks' = RemoveAt(tasks, i)
    /\ UNCHANGED <<buildVars, parseVars>>
    /\ UNCHANGED <<pointer, upstream, currentBranch, branches, pushed, threads, issued>>

\* status after the defer, when get_status raises: the revision tool cannot
\* be run, or CurrentState fails.  status has no try around it, so the
\* exception leaves the handler and nothing is sent.
StatusRaise(i) ==
    /\ i \in 1..Len(tasks)
    /\ tasks[i].kind = "status" /\ tasks[i].pc = "defer"
    /\ tasks' = [tasks EXCEPT ![i].pc = "raised", ![i].result = "raised"]
    /\ UNCHANGED <<buildVars, parseVars>>
    /\ UNCHANGED <<pointer, upstream, fetched, currentBranch, branches, pushed,
                   threads, pagers, issued>>

----------------------------------------------------------------------------
\* The pager's buttons

\* One of the Paginator's navigation buttons is pressed.  A button that
\* leads nowhere (back on the first page, forward on the last) is disabled.
Navigate(p, dir) ==
    /\ p \in 1..Len(pagers)
    /\ ~pagers[p].cancelled
    /\ navigate(pagers[p].current_page, Len(pagers[p].pages), dir)
         # pagers[p].current_page
    /\ pagers' = [pagers EXCEPT ![p].current_page =
                      navigate(@, Len(pagers[p].pages), dir)]
    /\ UNCHANGED <<buildVars, parseVars>>
    /\ UNCHANGED <<pointer, upstream, fetched, currentBranch, branches, pushed,
                   threads, tasks, issued>>

\* The pager times out (disable_on_timeout=True): its buttons are disabled.
PagerTimeout(p) ==
    /\ p \in 1..Len(pagers)
    /\ ~pagers[p].cancelled
    /\ pagers' = [pagers EXCEPT ![p].cancelled = TRUE]
    /\ UNCHANGED <<buildVars, parseVars>>
    /\ UNCHANGED <<pointer, upstream, fetched, currentBranch, branches, pushed,
                   threads, tasks, issued>>

\* An action button is pressed: its callback runs up to
\* `await interaction.response.defer()`.
Callback(p, kind) ==
    /\ p \in 1..Len(pagers)
    /\ ~pagers[p].cancelled
    /\ issued < MaxCommands
    /\ tasks' = Append(tasks, [NewTask(kind, "defer", pagers[p].channel, p)
                                  EXCEPT !.trig = pagers[p].current_page])
    /\ issued' = issued + 1
    /\ UNCHANGED <<buildVars, parseVars>>
    /\ UNCHANGED <<pointer, upstream, fetched, currentBranch, branches, pushed,
                   threads, pagers>>

\* AdvanceToButton.callback after the defer: reads the page in view, then
\* cancels the paginator, up to `await self.paginator.cancel`.
AdvanceRead(i) ==
    /\ i \in 1..Len(tasks)
    /\ tasks[i].kind = "advance_to" /\ tasks[i].pc = "defer"
    /\ LET p == tasks[i].pager
           idx == current_page_read(pagers[p])
       IN  IF idx + 1 \in DOMAIN pagers[p].pages
           THEN /\ tasks' = [tasks EXCEPT ![i].pc = "cancel",
                                          ![i].commit = pagers[p].pages[idx + 1]]
                /\ pagers' = [pagers EXCEPT ![p].cancelled = TRUE]
           ELSE /\ tasks' = RemoveAt(tasks, i)    \* IndexError
                /\ pagers' = pagers
    /\ UNCHANGED <<buildVars, parseVars>>
    /\ UNCHANGED <<pointer, upstream, fetched, currentBranch, branches, pushed,
                   threads, issued>>

\* AdvanceToButton.callback after the cancel: advance_to and the report, up
\* to `await message.edit`.  out: "ran" (the tool ran), "failed" (it exited
\* non-zero for a reason of its own), "raised" (subprocess.run raised).
AdvanceRun(i, out) ==
    /\ i \in 1..Len(tasks)
    /\ tasks[i].kind = "advance_to" /\ tasks[i].pc = "cancel"
    /\ LET t == tasks[i]
           r == IF out = "raised" THEN [pointer |-> pointer, returncode |-> 2]
                ELSE llvm_revision_next(t.commit, out = "ran")
           moved == r.pointer # pointer
       IN  /\ pointer' = r.pointer
           /\ tasks' = [tasks EXCEPT
                 ![i].pc = "report",
                 ![i].before = pointer,
                 ![i].head = fetched,
                 ![i].after = r.pointer,
                 ![i].returncode = r.returncode,
                 ![i].result = IF out = "raised" THEN "raised"
                               ELSE IF advance_to(r.returncode) THEN "True"
                               ELSE "False",
                 ![i].report = IF out = "raised" THEN "Error advancing"
                               ELSE "Advanced Successfully"]
           /\ pagers' = IF moved
                        THEN [pagers EXCEPT ![t.pager].effects = @ + 1]
                        ELSE pagers
    /\ UNCHANGED <<buildVars, parseVars>>
    /\ UNCHANGED <<upstream, fetched, currentBranch, branches, pushed, threads, issued>>

\* BuildButton.callback and PushButton.callback after the defer, up to
\* `await self.paginator.cancel`.
CancelPaginator(i) ==
    /\ i \in 1..Len(tasks)
    /\ tasks[i].kind \in {"build", "push"} /\ tasks[i].pc = "defer"
    /\ tasks' = [tasks EXCEPT ![i].pc = "cancel"]
    /\ pagers' = [pagers EXCEPT ![tasks[i].pager].cancelled = TRUE]
    /\ UNCHANGED <<buildVars, parseVars>>
    /\ UNCHANGED <<pointer, upstream, fetched, currentBranch, branches, pushed,
                   threads, issued>>

\* BuildButton.callback after the cancel: the build process is spawned and
\* its output is read, up to the `await message.edit` of a progress update.
\* (The read loop is followed step by step further down.)
BuildSpawn(i) ==
    /\ i \in 1..Len(tasks)
    /\ tasks[i].kind = "build" /\ tasks[i].pc = "cancel"
    /\ tasks' = [tasks EXCEPT ![i].pc = "running"]
    /\ pagers' = [pagers EXCEPT ![tasks[i].pager].effects = @ + 1]
    /\ UNCHANGED <<buildVars, parseVars>>
    /\ UNCHANGED <<pointer, upstream, fetched, currentBranch, branches, pushed,
                   threads, issued>>

\* BuildButton.callback after the cancel, when subprocess.Popen raises: the
\* build script cannot be run.  The callback has no try around it, so the
\* exception leaves the callback and nothing is sent.
BuildRaise(i) ==
    /\ i \in 1..Len(tasks)
    /\ tasks[i].kind = "build" /\ tasks[i].pc = "cancel"
    /\ tasks' = [tasks EXCEPT ![i].pc = "raised", ![i].result = "raised"]
    /\ UNCHANGED <<buildVars, parseVars>>
    /\ UNCHANGED <<pointer, upstream, fetched, currentBranch, branches, pushed,
                   threads, pagers, issued>>

\* The build process exits and the result is reported, up to the last
\* `await channel.send`.
BuildExit(i, return_code) ==
    /\ i \in 1..Len(tasks)
    /\ tasks[i].kind = "build" /\ tasks[i].pc = "running"
    /\ tasks' = [tasks EXCEPT
          ![i].pc = "report",
          ![i].returncode = return_code,
          ![i].report = IF return_code # 0 THEN "Build and Test Failed"
                        ELSE "Build and Test Successful"]
    /\ UNCHANGED <<buildVars, parseVars>>
    /\ UNCHANGED <<pointer, upstream, fetched, currentBranch, branches, pushed,
                   threads, pagers, issued>>

\* PushButton.callback after the cancel: the thread's branch is pushed, up
\* to `await message.edit`.
PushRun(i, ok) ==
    /\ i \in 1..Len(tasks)
    /\ tasks[i].kind = "push" /\ tasks[i].pc = "cancel"
    /\ LET t == tasks[i]
           branch_name == get_branch_name(t.channel)
       IN  /\ pushed' = IF ok THEN pushed \cup {branch_name} ELSE pushed
           /\ pagers' = IF ok THEN [pagers EXCEPT ![t.pager].effects = @ + 1]
                        ELSE pagers
           /\ tasks' = [tasks EXCEPT
                 ![i].pc = "report",
                 ![i].returncode = IF ok THEN 0 ELSE 1,
                 ![i].report = IF ok THEN "Push to Github Successfully"
                               ELSE "Error Pushing to Github"]
    /\ UNCHANGED <<buildVars, parseVars>>
    /\ UNCHANGED <<pointer, upstream, fetched, currentBranch, branches, threads, issued>>

----------------------------------------------------------------------------
\* integerate

\* integerate up to its first await: the role check.
IntegerateCheck(hasRole) ==
    /\ issued < MaxCommands
    /\ tasks' = Append(tasks,
          IF hasRole THEN NewTask("integerate", "defer", 0, 0)
          ELSE [NewTask("integerate", "respond", 0, 0)
                  EXCEPT !.result = "NoRole", !.report = "NoRole"])
    /\ issued' = issued + 1
    /\ UNCHANGED <<buildVars, parseVars>>
    /\ UNCHANGED <<pointer, upstream, fetched, currentBranch, branches, pushed,
                   threads, pagers>>

\* A mutant of integerate without the `return` of its except clause: the
\* thread is created whatever became of the start and of the push.
IntegerateStart_no_return(i, failAt) ==
    /\ i \in 1..Len(tasks)
    /\ tasks[i].kind = "integerate" /\ tasks[i].pc = "defer"
    /\ failAt = "switch" => currentBranch # Main
    /\ LET r == start_integerate(failAt)
       IN  /\ currentBranch' = r.currentBranch
           /\ branches' = r.branches
           /\ pushed' = IF failAt = "none" THEN pushed \cup {r.branch_name}
                        ELSE pushed
           /\ tasks' = [tasks EXCEPT ![i].pc = "send",
                                     ![i].name = r.branch_name]
    /\ UNCHANGED <<buildVars, parseVars>>
    /\ UNCHANGED <<pointer, upstream, fetched, threads, pagers, issued>>

\* integerate after the defer: start_integerate and the push, up to
\* `await ctx.send` (or to the error follow-up when a call raised).
IntegerateStart(i, failAt) ==
    /\ i \in 1..Len(tasks)
    /\ tasks[i].kind = "integerate" /\ tasks[i].pc = "defer"
    /\ failAt = "switch" => currentBranch # Main
    /\ LET r == start_integerate(failAt)
       IN  /\ currentBranch' = r.currentBranch
           /\ branches' = r.branches
           /\ pushed' = IF failAt = "none" THEN pushed \cup {r.branch_name}
                        ELSE pushed
           /\ tasks' = IF failAt = "none"
                       THEN [tasks EXCEPT ![i].pc = "send",
                                          ![i].name = r.branch_name]
                       ELSE [tasks EXCEPT ![i].pc = "report",
                                          ![i].result = failAt,
                                          ![i].report = "error"]
    /\ UNCHANGED <<buildVars, parseVars>>
    /\ UNCHANGED <<pointer, upstream, fetched, threads, pagers, issued>>

\* integerate after the send: the thread named after the branch is created
\* and the closing messages are sent, after which the handler ends.
IntegerateThread(i) ==
    /\ i \in 1..Len(tasks)
    /\ tasks[i].kind = "integerate" /\ tasks[i].pc = "send"
    /\ threads' = Append(threads, tasks[i].name)
    /\ tasks' = RemoveAt(tasks, i)
    /\ UNCHANGED <<buildVars, parseVars>>
    /\ UNCHANGED <<pointer, upstream, fetched, currentBranch, branches, pushed,
                   pagers, issued>>

----------------------------------------------------------------------------
\* BuildButton.callback in detail: the build process, the clock and the
\* read loop.  The loop reads the pipe with a blocking readline, so between
\* two awaits of the callback only the process and the clock move; the
\* event loop gets to run another handler only while the callback is
\* suspended at an await.
\*   pc = "cancel"   : suspended at `await self.paginator.cancel`
\*   pc = "readline" : in the for loop, inside process.stdout.readline
\*   pc = "edit"     : suspended at the `await message.edit` of a progress
\*                     update
\*   pc = "result"   : suspended at the `await message.edit` of the result
\*   pc = "send"     : suspended at the closing `await channel.send`
\*   pc = "done"     : returned
\*   pushes          : the progress updates attempted: when (curr_time),
\*                     with how many lines, and whether it was delivered
\*   shown           : the closing messages

\* A Build And Test press has been dispatched in the thread of the session
\* that is checked out, and its callback is cancelling the paginator.
InitBuild ==
    /\ pointer = 0
    /\ upstream = 0
    /\ fetched = 0
    /\ currentBranch = <<BaseName, 0>>
    /\ branches = {<<BaseName, 0>>}
    /\ pushed = {<<BaseName, 0>>}
    /\ threads = << <<BaseName, 0>> >>
    /\ pagers = <<>>
    /\ tasks = <<>>
    /\ issued = 0
    /\ clock = 0
    /\ process = NoProcess
    /\ build = [NoBuild EXCEPT !.pc = "cancel", !.logs = <<Heading>>]
    /\ desc = <<>>
    /\ embed = NoEmbed

\* Five seconds pass.  The clock is followed while the read loop runs, the
\* only place that reads it.
Tick ==
    /\ clock < MaxClock
    /\ build.pc \in {"readline", "edit"}
    /\ clock' = clock + 1
    /\ UNCHANGED <<botVars, process, build, parseVars>>

\* The callback after the cancel: subprocess.Popen and curr_time =
\* time.time(), into the first readline.
Popen ==
    /\ build.pc = "cancel"
    /\ process' = [state |-> "running", emitted |-> <<>>, return_code |-> 0]
    /\ build' = [build EXCEPT !.pc = "readline", !.curr_time = clock,
                              !.started = clock]
    /\ UNCHANGED <<botVars, clock, parseVars>>

\* The build process writes a line to its output.
Emit(line) ==
    /\ process.state = "running"
    /\ Len(process.emitted) < MaxLines
    /\ process' = [process EXCEPT !.emitted = Append(@, line)]
    /\ UNCHANGED <<botVars, clock, build, parseVars>>

\* The build process exits, which closes its output.
Exit(return_code) ==
    /\ process.state = "running"
    /\ process' = [process EXCEPT !.state = "exited",
                                  !.return_code = return_code]
    /\ UNCHANGED <<botVars, clock, build, parseVars>>

\* The lines the callback has read are all of logs but its heading.
Unread == SubSeq(process.emitted, Len(build.logs), Len(process.emitted))

\* readline returns a line: logs += line, and past the cadence test the
\* callback goes into `await message.edit`.
ReadLine ==
    /\ build.pc = "readline"
    /\ Unread # <<>>
    /\ LET push == should_push(clock, build.curr_time)
       IN  build' = [build EXCEPT
                        !.logs = Append(@, Head(Unread)),
                        !.curr_time = IF push THEN clock ELSE @,
                        !.pc = IF push THEN "edit" ELSE "readline"]
    /\ UNCHANGED <<botVars, clock, process, parseVars>>

\* The `await message.edit` of a progress update is over: the update was
\* delivered (ok) or the call raised.
ProgressEdit(ok) ==
    /\ build.pc = "edit"
    /\ build' = [build EXCEPT
                     !.pushes = Append(@, [at |-> build.curr_time,
                                           lines |-> Len(build.logs) - 1,
                                           ok |-> ok]),
                     !.pc = message_edit(ok)]
    /\ UNCHANGED <<botVars, clock, process, parseVars>>

\* readline returns "": the loop ends, process.wait() returns the exit
\* code and the result goes out with `await message.edit`.
ProcessWait ==
    /\ build.pc = "readline"
    /\ Unread = <<>>
    /\ process.state = "exited"
    /\ build' = [build EXCEPT
                     !.pc = "result",
                     !.return_code = process.return_code,
                     !.shown = Append(@, [kind |-> "result",
                                          title |-> build_result(process.return_code),
                                          body |-> build.logs])]
    /\ UNCHANGED <<botVars, clock, process, parseVars>>

\* The callback after the result: on a failure the error lines are picked
\* out of logs and sent (as an embed, or as errors.txt from 1500 characters
\* on), on a success a closing line is sent; `await channel.send`.
SendSummary ==
    /\ build.pc = "result"
    /\ build' = [build EXCEPT
                     !.pc = "send",
                     !.shown = Append(@,
                         IF build.return_code # 0
                         THEN [kind |-> "followup",
                               title |-> "Summarized Errors",
                               body |-> error_lines(split(build.logs))]
                         ELSE [kind |-> "followup",
                               title |-> "Build and Test Successful",
                               body |-> <<>>])]
    /\ UNCHANGED <<botVars, clock, process, parseVars>>

\* The closing send is over and the callback returns.
BuildReturn ==
    /\ build.pc = "send"
    /\ build' = [build EXCEPT !.pc = "done"]
    /\ UNCHANGED <<botVars, clock, process, parseVars>>

\* The event loop runs handlers one at a time: it can start another one
\* only when the Build callback is not in the middle of a segment.
EventLoopFree == build.pc # "readline"

\* A status typed in another channel is dispatched.
Dispatch ==
    /\ EventLoopFree
    /\ StatusCheck(0, TRUE)

NextBuild ==
    \/ Tick
    \/ Popen
    \/ \E line \in Lines : Emit(line)
    \/ \E return_code \in {0, 1} : Exit(return_code)
    \/ ReadLine
    \/ \E ok \in BOOLEAN : ProgressEdit(ok)
    \/ ProcessWait
    \/ SendSummary
    \/ BuildReturn

SpecBuild == InitBuild /\ [][NextBuild]_vars

\* A step of the callback.
CallbackStep ==
    \/ Popen
    \/ ReadLine
    \/ \E ok \in BOOLEAN : ProgressEdit(ok)
    \/ ProcessWait
    \/ SendSummary
    \/ BuildReturn

\* The event loop resumes a callback whose await is over and the reads of
\* the loop return, so the callback takes the step it is ready for; and
\* the build process comes to an end.
FairBuild ==
    /\ WF_vars(CallbackStep)
    /\ WF_vars(\E return_code \in {0, 1} : Exit(return_code))

SpecBuildFair == SpecBuild /\ FairBuild

\* The build next to the other commands of the bot.
NextBuildLoop ==
    \/ NextBuild
    \/ Dispatch

SpecBuildLoop == InitBuild /\ [][NextBuildLoop]_vars

----------------------------------------------------------------------------
\* get_commit_embed on its own

\* The revision tool hands over a commit with a description: a text alone,
\* or a text with the attribution and with or without the pull-request
\* marker.
InitParse ==
    /\ pointer = 0
    /\ upstream = 0
    /\ fetched = 0
    /\ currentBranch = Main
    /\ branches = {}
    /\ pushed = {}
    /\ threads = <<>>
    /\ pagers = <<>>
    /\ tasks = <<>>
    /\ issued = 0
    /\ clock = 0
    /\ process = NoProcess
    /\ build = NoBuild
    /\ desc \in Texts \cup {Described(text, hasPr, author, date) :
                                text \in Texts, hasPr \in BOOLEAN,
                                author \in Authors, date \in Dates}
    /\ embed = NoEmbed

\* status makes the page of the commit.
CommitEmbed ==
    /\ ~embed.made
    /\ embed' = get_commit_embed(desc)
    /\ UNCHANGED <<botVars, buildVars, desc>>

NextParse == CommitEmbed

SpecParse == InitParse /\ [][NextParse]_vars

----------------------------------------------------------------------------
Slots == 1..MaxCommands

Failures == {"none"} \cup {GitCalls[c] : c \in 1..Len(GitCalls)}

Next ==
    \/ UpstreamCommit
    \/ \E ch \in Channels, hasRole \in BOOLEAN : StatusCheck(ch, hasRole)
    \/ \E i \in Slots, exit \in {0, 1} : StatusOpen(i, exit)
    \/ \E i \in Slots : StatusRaise(i)
    \/ \E p \in 1..MaxCommands : PagerTimeout(p)
    \/ \E p \in 1..MaxCommands, dir \in Directions : Navigate(p, dir)
    \/ \E p \in 1..MaxCommands, kind \in Kinds : Callback(p, kind)
    \/ \E i \in Slots : AdvanceRead(i)
    \/ \E i \in Slots, out \in {"ran", "failed", "raised"} : AdvanceRun(i, out)
    \/ \E i \in Slots : CancelPaginator(i)
    \/ \E i \in Slots : BuildSpawn(i)
    \/ \E i \in Slots : BuildRaise(i)
    \/ \E i \in Slots, return_code \in {0, 1} : BuildExit(i, return_code)
    \/ \E i \in Slots, ok \in BOOLEAN : PushRun(i, ok)
    \/ \E hasRole \in BOOLEAN : IntegerateCheck(hasRole)
    \/ \E i \in Slots, failAt \in Failures : IntegerateStart(i, failAt)
    \/ \E i \in Slots : IntegerateThread(i)
    \/ \E i \in Slots : TaskDone(i)

Spec == Init /\ [][Next]_vars

\* Session handling alone: integerate and status, no pager button.
NextSession ==
    \/ UpstreamCommit
    \/ \E ch \in Channels, hasRole \in BOOLEAN : StatusCheck(ch, hasRole)
    \/ \E i \in Slots, exit \in {0, 1} : StatusOpen(i, exit)
    \/ \E i \in Slots : StatusRaise(i)
    \/ \E p \in 1..MaxCommands : PagerTimeout(p)
    \/ \E hasRole \in BOOLEAN : IntegerateCheck(hasRole)
    \/ \E i \in Slots, failAt \in Failures : IntegerateStart(i, failAt)
    \/ \E i \in Slots : IntegerateThread(i)
    \/ \E i \in Slots : TaskDone(i)

SpecSession == Init /\ [][NextSession]_vars

\* Review alone: status and the pager's buttons, no integerate.
NextReview ==
    \/ UpstreamCommit
    \/ \E ch \in Channels, hasRole \in BOOLEAN : StatusCheck(ch, hasRole)
    \/ \E i \in Slots, exit \in {0, 1} : StatusOpen(i, exit)
    \/ \E i \in Slots : StatusRaise(i)
    \/ \E p \in 1..MaxCommands : PagerTimeout(p)
    \/ \E p \in 1..MaxCommands, dir \in Directions : Navigate(p, dir)
    \/ \E p \in 1..MaxCommands, kind \in Kinds : Callback(p, kind)
    \/ \E i \in Slots : AdvanceRead(i)
    \/ \E i \in Slots, out \in {"ran", "failed", "raised"} : AdvanceRun(i, out)
    \/ \E i \in Slots : CancelPaginator(i)
    \/ \E i \in Slots : BuildSpawn(i)
    \/ \E i \in Slots : BuildRaise(i)
    \/ \E i \in Slots, return_code \in {0, 1} : BuildExit(i, return_code)
    \/ \E i \in Slots, ok \in BOOLEAN : PushRun(i, ok)
    \/ \E i \in Slots : TaskDone(i)

SpecReview == Init /\ [][NextReview]_vars

\* Session start alone, in a working copy that already holds any branches:
\* left by earlier integrates, made by hand, or of another day; main is
\* checked out, or the branch of the other day still is.
InitNaming ==
    /\ pointer = 0
    /\ upstream = 0
    /\ fetched = 0
    /\ branches \in SUBSET Names
    /\ currentBranch \in {Main} \cup (branches \cap {<<OtherName, 0>>})
    /\ pushed = {}
    /\ threads = <<>>
    /\ pagers = <<>>
    /\ tasks = <<>>
    /\ issued = 0
    /\ clock = 0
    /\ process = NoProcess
    /\ build = NoBuild
    /\ desc = <<>>
    /\ embed = NoEmbed

NextNaming ==
    \/ \E hasRole \in BOOLEAN : IntegerateCheck(hasRole)
    \/ \E i \in Slots, failAt \in Failures : IntegerateStart(i, failAt)
    \/ \E i \in Slots : IntegerateThread(i)
    \/ \E i \in Slots : TaskDone(i)

SpecNaming == InitNaming /\ [][NextNaming]_vars

----------------------------------------------------------------------------
\* Properties

TaskIds == 1..Len(tasks)

\* A button callback that has made its external call and applied its effect:
\* the pointer moved, the build process was spawned, or the branch was pushed.
Applied(t) ==
    \/ t.kind = "advance_to" /\ t.pc = "report" /\ t.after # t.before
    \/ t.kind = "build" /\ t.pc \in {"running", "report"}
    \/ t.kind = "push" /\ t.pc = "report" /\ t.returncode = 0

\* C1: no advance, build or push effect happens for a thread whose branch
\* name differs from the branch checked out when the button was pressed.
C1_EffectOnlyOnCheckedOutSession ==
    \A i \in TaskIds : Applied(tasks[i]) => tasks[i].name = tasks[i].checkedOut

\* C2: check_channel answers NotFound when the thread resolves to no branch
\* name and StaleSession when the name differs from the checked-out branch,
\* and a status so refused stops at its reply: it never reaches the fetch
\* and opens no pager.
C2_StaleOrNotFoundStopsStatus ==
    \A i \in TaskIds :
        LET t == tasks[i]
        IN  (t.kind = "status" /\ t.result # "NoRole") =>
              /\ t.name = None => t.result = "NotFound"
              /\ (t.name # None /\ t.name # t.checkedOut)
                    => t.result = "StaleSession"
              /\ t.result \in {"NotFound", "StaleSession"}
                    => t.pc = "respond" /\ t.pager = 0

\* C2 witness: a status refused as stale although its branch still exists.
C2_Witness ==
    \E i \in TaskIds :
        /\ tasks[i].kind = "status"
        /\ tasks[i].result = "StaleSession"
        /\ tasks[i].name \in branches
        /\ tasks[i].pc = "respond"

\* C3: the commit AdvanceTo acts on is the one on the page that was in view
\* when the button was pressed.
C3_ActsOnCommitInViewWhenPressed ==
    \A i \in TaskIds :
        LET t == tasks[i]
        IN  (t.kind = "advance_to" /\ t.pc \in {"cancel", "report"}) =>
              t.commit = pagers[t.pager].pages[t.trig + 1]

\* C4: at most one effect is ever applied through one pager.
C4_OneEffectPerPager ==
    \A p \in 1..Len(pagers) : pagers[p].effects <= 1

InBacklog(t) == t.before < t.commit /\ t.commit <= t.head

\* C6: advance_to with an id that is not in the backlog returns False
\* (AdvanceRejected) and the pointer is what it was before the call.
C6_AdvanceOutsideBacklogRejected ==
    \A i \in TaskIds :
        LET t == tasks[i]
        IN  (t.kind = "advance_to" /\ t.pc = "report"
             /\ t.result # "raised" /\ ~InBacklog(t)) =>
              t.result = "False" /\ t.after = t.before

\* C6 witness: advance_to ran, with the tool running normally, on an id
\* outside the backlog.
C6_Witness ==
    \E i \in TaskIds :
        /\ tasks[i].kind = "advance_to" /\ tasks[i].pc = "report"
        /\ tasks[i].returncode = 1 /\ tasks[i].commit >= 1
        /\ ~InBacklog(tasks[i])
        /\ tasks[i].result = "False"

\* C7: the operator is told the advance succeeded exactly when the tool
\* exited zero.
C7_SuccessReportedIffZeroExit ==
    \A i \in TaskIds :
        LET t == tasks[i]
        IN  (t.kind = "advance_to" /\ t.pc = "report") =>
              (t.report = "Advanced Successfully" <=> t.returncode = 0)

\* C8: no pager is presented by a status whose fetch command exited
\* non-zero.
C8_FailedFetchOpensNoPager ==
    \A p \in 1..Len(pagers) : pagers[p].fetchExit = 0

C10_NavigateClamps ==
    /\ [](\A p \in 1..Len(pagers) :
            /\ pagers[p].current_page >= 0
            /\ pagers[p].current_page <= Len(pagers[p].pages) - 1
            /\ \A k \in 1..Len(pagers[p].pages) :
                  pagers[p].pages[k] = pagers[p].pages[1] + k - 1)
    /\ [][\A p \in 1..Len(pagers) :
            LET page == pagers[p].current_page
                last == Len(pagers[p].pages) - 1
            IN  /\ Navigate(p, "next") =>
                      pagers'[p].current_page
                        = IF page = last THEN last ELSE page + 1
                /\ Navigate(p, "prev") =>
                      pagers'[p].current_page
                        = IF page = 0 THEN 0 ELSE page - 1]_vars

\* C10 witness: a pager of several pages navigated to its last page.
C10_Witness ==
    \E p \in 1..Len(pagers) :
        /\ Len(pagers[p].pages) >= 2
        /\ pagers[p].current_page = Len(pagers[p].pages) - 1

\* C11: the name start_integerate returns is the bare name of the day when
\* no branch has it, and otherwise the name with the least suffix _k,
\* k >= 1, that no branch has; it is never the name of an existing branch,
\* and it is the branch that is created.
C11_BranchNameDerivation ==
    [][\A i \in Slots :
          IntegerateStart(i, "none") =>
              LET name == tasks'[i].name
              IN  /\ name[1] = BaseName
                  /\ name \notin branches
                  /\ \A k \in 0..(name[2] - 1) : <<BaseName, k>> \in branches
                  /\ branches' = branches \cup {name}]_vars

\* C11 witness: with the bare name and _1 taken, and a branch of another
\* day around, the session started is named _2.
C11_Witness ==
    \E i \in TaskIds :
        /\ tasks[i].kind = "integerate" /\ tasks[i].pc = "send"
        /\ tasks[i].name = <<BaseName, 2>>
        /\ <<OtherName, 0>> \in branches
        /\ issued = 1

\* The calls of steps 1 to 3: the switch to main, the fetch and the
\* fast-forward pull, the submodule update.
SyncCalls == {"switch", "fetch", "pull", "submodule"}

\* The step in which integerate i runs start_integerate and the push: it
\* leaves its defer, and no handler ends in that step.
Started(i) ==
    /\ tasks[i].kind = "integerate" /\ tasks[i].pc = "defer"
    /\ Len(tasks') = Len(tasks)
    /\ tasks'[i].pc # "defer"

\* C12: when a call of steps 1 to 3 fails, the start aborts with the error
\* reply and no branch is created, checked out or pushed; a branch is
\* created only by a start whose steps 1 to 3 all succeeded.
C12_SyncFailureCreatesNoBranch ==
    [][/\ \A i \in TaskIds :
             (Started(i) /\ tasks'[i].result \in SyncCalls) =>
                 /\ branches' = branches
                 /\ pushed' = pushed
                 /\ currentBranch' \in {currentBranch, Main}
                 /\ tasks'[i].pc = "report"
                 /\ tasks'[i].report = "error"
       /\ branches' # branches =>
             \E i \in TaskIds :
                 Started(i) /\ tasks'[i].result \notin SyncCalls]_vars

\* C12 witness: a start that had switched to main and then failed to pull
\* has replied with the error.
C12_Witness ==
    \E i \in TaskIds :
        /\ tasks[i].kind = "integerate" /\ tasks[i].pc = "report"
        /\ tasks[i].result = "pull"
        /\ currentBranch = Main
        /\ branches # {}

\* C20: the names of the threads are pairwise distinct, every thread names
\* a branch that was created and pushed, and an integerate that is about to
\* create its thread has started its session and pushed its branch, under a
\* name that no thread and no other integerate holds.
C20_ThreadBranchBijection ==
    /\ \A a, b \in 1..Len(threads) : a # b => threads[a] # threads[b]
    /\ \A a \in 1..Len(threads) : threads[a] \in branches \cap pushed
    /\ \A i \in TaskIds :
          (tasks[i].kind = "integerate" /\ tasks[i].pc = "send") =>
              /\ tasks[i].name \in branches \cap pushed
              /\ \A a \in 1..Len(threads) : threads[a] # tasks[i].name
              /\ \A j \in TaskIds :
                    (j # i /\ tasks[j].kind = "integerate"
                     /\ tasks[j].pc = "send") => tasks[j].name # tasks[i].name

\* C20 witness: next to the thread of an earlier session, an integerate
\* failed and left a branch without a thread, and another one created its
\* thread.
C20_Witness ==
    /\ Len(threads) >= 2
    /\ Cardinality(branches) > Len(threads)
    /\ \E i \in TaskIds :
          /\ tasks[i].kind = "integerate" /\ tasks[i].pc = "report"
          /\ tasks[i].result \in {"commit", "push"}

\* The build is over: the read loop has ended and the result has gone out.
Terminal == build.pc \in {"result", "send", "done"}

\* C13: two progress updates, delivered or not, are more than 10 seconds
\* apart, and so is the first one from the start of the build, so that no
\* more than one update goes out per 10 seconds elapsed whatever the rate
\* of the lines; what has been read is always the lines written so far, in
\* order; and once the loop has ended logs holds every line the process
\* wrote, in order, after the heading.
C13_CadenceAndCompleteness ==
    /\ \A k \in 1..Len(build.pushes) :
          Seconds(build.pushes[k].at
                    - (IF k = 1 THEN build.started ELSE build.pushes[k - 1].at))
            > 10
    /\ build.pc = "edit" =>
          Seconds(build.curr_time
                    - (IF build.pushes = <<>> THEN build.started
                       ELSE build.pushes[Len(build.pushes)].at)) > 10
    /\ 10 * Len(build.pushes) <= Seconds(clock - build.started)
    /\ build.pc \notin {"idle", "cancel"} =>
          /\ Len(build.logs) - 1 <= Len(process.emitted)
          /\ build.logs
                = <<Heading>> \o SubSeq(process.emitted, 1, Len(build.logs) - 1)
    /\ Terminal => build.logs = <<Heading>> \o process.emitted

\* C13 witness: a build that wrote MaxLines lines got two progress updates,
\* the second with more lines than the first, and ended with exit code 0.
C13_Witness ==
    /\ build.pc = "done"
    /\ Len(process.emitted) = MaxLines
    /\ Len(build.pushes) = 2
    /\ build.pushes[2].lines > build.pushes[1].lines
    /\ build.return_code = 0

\* A progress update of this build raised.
PushFailed == \E k \in 1..Len(build.pushes) : ~build.pushes[k].ok

\* C18: a progress update that raises changes neither logs nor the process
\* and leaves the callback in its read loop; lines written after it are
\* still read, so that the build that lost an update ends with all of its
\* output and with the result its exit code calls for; and it does end.
C18_FailedPushNeverAborts ==
    /\ [][ProgressEdit(FALSE) =>
            /\ build'.logs = build.logs
            /\ build'.pc = "readline"
            /\ process' = process]_vars
    /\ []((PushFailed /\ Terminal) =>
            /\ build.logs = <<Heading>> \o process.emitted
            /\ build.shown[1].title
                  = (IF process.return_code = 0 THEN "Build and Test Successful"
                     ELSE "Build and Test Failed"))
    /\ (PushFailed ~> Terminal)

\* C18 witness: a build lost its first progress update, read a line after
\* it, and ended as failed.
C18_Witness ==
    /\ build.pc = "done"
    /\ Len(build.pushes) >= 1
    /\ ~build.pushes[1].ok
    /\ Len(build.logs) - 1 > build.pushes[1].lines
    /\ build.return_code = 1

\* The state of the build run, as the callback's position and the result it
\* has told the operator show it.
exit_status ==
    CASE build.pc \in {"idle", "cancel"} -> "NotStarted"
      [] build.pc \in {"readline", "edit"} -> "Running"
      [] Terminal ->
           IF build.shown[1].title = "Build and Test Successful"
           THEN "Succeeded" ELSE "Failed"

Results == {m \in 1..Len(build.shown) : build.shown[m].kind = "result"}

\* C17: the run is NotStarted until the process is spawned and Running from
\* that step on; it is Succeeded or Failed only once the process has exited
\* and all of its output has been read, Succeeded exactly when the exit
\* code is zero; one result is reported, and none before the end; and the
\* only steps are NotStarted to Running and Running to Succeeded or Failed.
C17_BuildStateMachine ==
    /\ [](/\ exit_status = "NotStarted" <=> process.state = "none"
          /\ Terminal =>
                /\ process.state = "exited"
                /\ Unread = <<>>
                /\ exit_status = "Succeeded" <=> process.return_code = 0
          /\ Cardinality(Results) = (IF Terminal THEN 1 ELSE 0))
    /\ [][\/ exit_status' = exit_status
          \/ /\ exit_status = "NotStarted" /\ exit_status' = "Running"
             /\ process.state = "none" /\ process'.state = "running"
          \/ /\ exit_status = "Running"
             /\ exit_status' \in {"Succeeded", "Failed"}
             /\ process.state = "exited"]_vars

\* C17 witness: a build whose process exited non-zero after progress
\* updates has ended as Failed.
C17_Witness ==
    /\ build.pc = "done"
    /\ exit_status = "Failed"
    /\ process.return_code = 1
    /\ build.pushes # <<>>

\* A line that starts with FAILED:, or has error: or Assertion in it.
Marked(line) ==
    \/ Len(line) >= 1 /\ line[1] = "FAILED:"
    \/ "error:" \in {line[k] : k \in 1..Len(line)}
    \/ "Assertion" \in {line[k] : k \in 1..Len(line)}

\* The places of the marked lines of the accumulated output, and the k-th
\* of them.
MarkedAt == {j \in 1..Len(build.logs) : Marked(build.logs[j])}

NthMarked(k) ==
    CHOOSE j \in MarkedAt : Cardinality({x \in MarkedAt : x < j}) = k - 1

\* C15: the report sent after a failed build is the marked lines of the
\* accumulated output, each of them once, in the order of the output, and
\* no other line; a build that succeeded sends no report.
C15_ReportIsMarkedLines ==
    build.pc \in {"send", "done"} =>
        IF build.return_code # 0
        THEN LET report == build.shown[2].body
             IN  /\ build.shown[2].title = "Summarized Errors"
                 /\ Len(report) = Cardinality(MarkedAt)
                 /\ \A k \in 1..Len(report) :
                       report[k] = build.logs[NthMarked(k)]
        ELSE \A m \in 1..Len(build.shown) :
                 build.shown[m].title # "Summarized Errors"

\* C15 witness: of the output note: something, error: bad type, the report
\* holds the second line only.
C15_Witness ==
    /\ build.pc = "done"
    /\ process.emitted = << <<"note:", "something">>,
                            <<"error:", "bad", "type">> >>
    /\ build.shown[2].body = << <<"error:", "bad", "type">> >>

\* C19: whenever a build is Running and its process has not exited, another
\* command can be dispatched.
C19_DispatchWhileBuildRuns ==
    (exit_status = "Running" /\ process.state = "running"
     /\ issued < MaxCommands) => ENABLED Dispatch

\* C16: a description "<text> (#<number>) (<author> on <date>)" gives an
\* embed with that text, author and date and the number of the pull
\* request; the same without the marker gives the same with no pull
\* request; and a description that is a text alone, with no attribution
\* after it, gives an embed with the raw text and no structured field.
C16_DescriptionParsed ==
    embed.made =>
        /\ \A text \in Texts, author \in Authors, date \in Dates :
              /\ desc = Described(text, TRUE, author, date) =>
                    embed = [made |-> TRUE, description |-> text,
                             structured |-> TRUE, author |-> author,
                             date |-> date, github_pr |-> <<"123">>]
              /\ desc = Described(text, FALSE, author, date) =>
                    embed = [made |-> TRUE, description |-> text,
                             structured |-> TRUE, author |-> author,
                             date |-> date, github_pr |-> <<"No PR">>]
        /\ desc \in Texts =>
              embed = [made |-> TRUE, description |-> desc,
                       structured |-> FALSE, author |-> <<>>,
                       date |-> <<>>, github_pr |-> <<>>]

\* A handler one of whose external calls failed: the tool, git or the build
\* script exited non-zero or could not be run.
ExternalCallFailed(t) ==
    \/ t.result = "raised"
    \/ /\ t.kind \in {"advance_to", "build", "push"}
       /\ t.pc = "report" /\ t.returncode # 0
    \/ t.kind = "integerate" /\ t.pc = "report"

\* C14: a handler one of whose external calls failed has a message for the
\* operator.
C14_FailureEndsWithMessage ==
    \A i \in TaskIds :
        ExternalCallFailed(tasks[i]) => tasks[i].report # "none"

====
